---------------------------- MODULE Spec2Model ----------------------------
(***************************************************************************)
(* A model of the kodo Client, the wrapper around the qiniu storage SDK:   *)
(* KeyList (the paginated listing loop), KeyExist and Writer/Push.         *)
(*                                                                         *)
(* The storage backend is the environment.  Under the listed prefix it     *)
(* holds the keys 1..total, in listing order; a key is named by its rank.  *)
(* A marker is the rank of the last key of the pages already served, and   *)
(* the empty marker "" (EmptyMarker) is rank 0: the listing starts there,  *)
(* and the backend answers it as next marker when no page is left.         *)
(***************************************************************************)
EXTENDS Integers, Sequences, FiniteSets, TLC

\* ------------------------------------------------------------- bounds
MaxKeys == 12
MaxN == 6
MaxLimit == 3

\* ---------------------------------------------------------- constants
\* math.MaxInt64 in the source; TLC's integers are 32 bits wide, and the
\* value is only ever compared with len(keys), which stays far below both.
DefaultN == 2147483647
DefaultLimit == 1000
EmptyMarker == 0
Buckets == {"bkt", "img"}
Delimiters == {"", "/"}
\* The goroutines that call Writer or Push, one call each.
Procs == {"g1", "g2"}
Paths == {"a.png", "b.png"}
Datas == {<<>>, <<"d">>}
ErrMissFops == "persistent operations should not be empty"
defaultRetBody ==
    "{\"key\":\"$(key)\",\"hash\":\"$(etag)\",\"fsize\":\"$(fsize)\",\"bucket\":\"$(bucket)\",\"name\":\"$(x:name)\"}"
Absent == "absent"
\* A map the caller owns and may hand to several calls (the source's example).
SharedMap == "shared"

VARIABLES
    bucket,       \* client.bucket, set by NewClient and never written again
    total,        \* backend: the number of keys under the prefix
    klpc,         \* KeyList: "idle", "loop" (inside the for loop) or "done"
    n,            \* KeyList's local n
    limit,        \* KeyList's local limit
    marker,       \* KeyList's local marker
    delimiter,    \* KeyList's local delimiter
    keys,         \* KeyList's local keys
    ret,          \* KeyList's return values, [keys, marker], once klpc = "done"
    call,         \* the parameters the running KeyList call started with
    reqs,         \* the ListFiles calls of the running KeyList call, in order
    reason,       \* why the KeyList call returned: "max", "exhausted", "error"
    resumeAfter,  \* rank of the last key of the call this one resumes, or 0
    existKey,     \* KeyExist: the key of the last call, 0 before the first
    existRet,     \* KeyExist: what the last call returned
    statLog,      \* the Stat calls of the last KeyExist call, in order
    wpc,          \* Writer, per goroutine: "idle", "inject", "put" or "done"
    wcall,        \* the arguments of the goroutine's Writer call
    wloc,         \* Writer's locals
    wret,         \* Writer's return values, [state, err]
    upload,       \* the uploader.Put calls of the goroutine's Writer call
    heap,         \* the extra-parameter maps, by reference
    crashed       \* the runtime ended the process (concurrent map access)

klvars == <<klpc, n, limit, marker, delimiter, keys, ret, call, reqs, reason,
            resumeAfter>>
exvars == <<existKey, existRet, statLog>>
wvars == <<wpc, wcall, wloc, wret, upload, heap, crashed>>
vars == <<bucket, total, klvars, exvars, wvars>>

Min(a, b) == IF a < b THEN a ELSE b

\* ------------------------------------------------------------ backend
\* One page of the listing: up to `lim` keys after marker m, the marker of
\* the next page, and whether there is one.
ListFiles(m, lim) ==
    LET last == Min(m + lim, total)
    IN  [items      |-> [i \in 1..(last - m) |-> m + i],
         nextMarker |-> IF last < total THEN last ELSE EmptyMarker,
         hashNext   |-> last < total]

\* ------------------------------------------------------------ KeyList
\* The switch on len(args), with its fallthroughs: args[0] = n,
\* args[1] = limit, args[2] = marker, args[3] = delimiter.
ArgN(args) == IF Len(args) \in 1..4 THEN args[1] ELSE DefaultN
ArgLimit(args) == IF Len(args) \in 2..4 THEN args[2] ELSE DefaultLimit
ArgMarker(args) == IF Len(args) \in 3..4 THEN args[3] ELSE EmptyMarker
ArgDelimiter(args) == IF Len(args) = 4 THEN args[4] ELSE ""

\* The argument lists a caller passes: none to four optional arguments.
KeyListArgs ==
    {<<>>}
    \cup {<<a>> : a \in 0..MaxN}
    \cup {<<a, l>> : a \in 0..MaxN, l \in 1..MaxLimit}
    \cup {<<a, l, m>> : a \in 0..MaxN, l \in 1..MaxLimit,
                        m \in 0..(IF total = 0 THEN 0 ELSE total - 1)}
    \cup {<<a, l, m, d>> : a \in 0..MaxN, l \in 1..MaxLimit,
                           m \in 0..(IF total = 0 THEN 0 ELSE total - 1),
                           d \in Delimiters}

ReachedMaxOffByOne(ks, max) == Len(ks) > max

\* The loop's exit test on the accumulated count.
ReachedMax(ks, max) == Len(ks) >= max

\* for _, item := range items: append, and stop inside the page once the
\* count reaches n.
RECURSIVE RangeItems(_, _, _)
RangeItems(ks, items, max) ==
    IF items = <<>>
    THEN [keys |-> ks, hit |-> FALSE]
    ELSE LET ks2 == Append(ks, Head(items))
         IN  IF ReachedMax(ks2, max)
             THEN [keys |-> ks2, hit |-> TRUE]
             ELSE RangeItems(ks2, Tail(items), max)

\* The marker returned when the count reaches n inside a page.
MarkerAtMax(cur, next) == next

AdvanceMarkerStuck(cur, next) == cur

\* The marker the loop continues with when the backend reports more pages.
AdvanceMarker(cur, next) == next

MarkerAtBreakEmpty(cur) == EmptyMarker

\* The marker returned after a break (an error, or no more pages).
MarkerAtBreak(cur) == cur

Request(ok, items) ==
    [bucket |-> bucket, delimiter |-> delimiter, marker |-> marker,
     limit |-> limit, ok |-> ok, items |-> items]

\* The entry of KeyList: the defaults, then the switch on len(args).
KeyListEnter(args) ==
    /\ n' = ArgN(args)
    /\ limit' = ArgLimit(args)
    /\ marker' = ArgMarker(args)
    /\ delimiter' = ArgDelimiter(args)
    /\ keys' = <<>>
    /\ call' = [n |-> n', limit |-> limit', marker |-> marker']
    /\ reqs' = <<>>
    /\ reason' = "none"
    /\ klpc' = "loop"
    /\ UNCHANGED <<bucket, total, ret, exvars, wvars>>

\* A first call, with any arguments.
KeyListCall ==
    /\ klpc = "idle"
    /\ \E args \in KeyListArgs : KeyListEnter(args)
    /\ resumeAfter' = 0

\* A following call, started at the marker the call before returned.  When
\* that call stopped at its n keys with keys left in the backend, resumeAfter
\* keeps the rank of the last key it returned.
KeyListResume ==
    /\ klpc = "done"
    /\ \E a \in 0..MaxN, l \in 1..MaxLimit : KeyListEnter(<<a, l, ret.marker>>)
    /\ resumeAfter' =
         IF /\ reason = "max"
            /\ Len(ret.keys) = call.n
            /\ ret.keys[Len(ret.keys)] < total
         THEN ret.keys[Len(ret.keys)]
         ELSE 0

\* One iteration of the for loop whose ListFiles call fails.
KeyListIterErr ==
    /\ klpc = "loop"
    /\ reqs' = Append(reqs, Request(FALSE, <<>>))
    /\ ret' = [keys |-> keys, marker |-> MarkerAtBreak(marker)]
    /\ reason' = "error"
    /\ klpc' = "done"
    /\ UNCHANGED <<bucket, total, n, limit, marker, delimiter, keys, call,
                   resumeAfter, exvars, wvars>>

\* One iteration of the for loop whose ListFiles call succeeds.
KeyListIterOk ==
    /\ klpc = "loop"
    /\ LET resp == ListFiles(marker, limit)
           r == RangeItems(keys, resp.items, n)
       IN  /\ reqs' = Append(reqs, Request(TRUE, resp.items))
           /\ keys' = r.keys
           /\ IF r.hit
              THEN /\ ret' = [keys |-> r.keys,
                              marker |-> MarkerAtMax(marker, resp.nextMarker)]
                   /\ reason' = "max"
                   /\ klpc' = "done"
                   /\ UNCHANGED marker
              ELSE IF resp.hashNext
              THEN /\ marker' = AdvanceMarker(marker, resp.nextMarker)
                   /\ UNCHANGED <<ret, reason, klpc>>
              ELSE /\ ret' = [keys |-> r.keys, marker |-> MarkerAtBreak(marker)]
                   /\ reason' = "exhausted"
                   /\ klpc' = "done"
                   /\ UNCHANGED marker
    /\ UNCHANGED <<bucket, total, n, limit, delimiter, call, resumeAfter,
                   exvars, wvars>>

\* ----------------------------------------------------------- KeyExist
\* The backend's answer to a metadata-stat call.
Stat(key, transportOk) ==
    IF ~transportOk THEN "timeout"
    ELSE IF key \in 1..total THEN "ok"
    ELSE "not found"

\* err != nil for a Stat answer.
StatFailed(outcome) == outcome # "ok"

KeyExistResultNotFoundOnly(outcome) == outcome # "not found"

\* if err != nil { return false }; return true
KeyExistResult(outcome) == IF StatFailed(outcome) THEN FALSE ELSE TRUE

KeyExist ==
    \E key \in 1..(MaxKeys + 1), transportOk \in BOOLEAN :
        LET outcome == Stat(key, transportOk)
        IN  /\ existKey' = key
            /\ statLog' = <<[bucket |-> bucket, key |-> key,
                             outcome |-> outcome]>>
            /\ existRet' = KeyExistResult(outcome)
            /\ UNCHANGED <<bucket, total, klvars, wvars>>

\* ------------------------------------------------------- Writer / Push
MissFopsCaseZero(args) == Len(args) = 0

\* case 1: return nil, ErrMissFops
MissFops(args) == Len(args) = 1

ScopeBucketOnly(path, overWriter) == bucket

\* scope = client.bucket; if overWriter { scope = bucket:path }
Scope(path, overWriter) ==
    IF overWriter THEN bucket \o ":" \o path ELSE bucket

\* The switch on len(args), with its fallthroughs: args[0] = pipName,
\* args[1] = fops, args[2] = extraParams, args[3] = retBody, args[4] = cbURL.
ArgPipName(args) == IF Len(args) \in 2..5 THEN args[1] ELSE ""
ArgFops(args) == IF Len(args) \in 2..5 THEN args[2] ELSE ""
\* extraParams is the caller's map itself when one is passed, and the map
\* made at the declaration (named by the goroutine) otherwise.
ArgExtraParams(p, args) == IF Len(args) \in 3..5 THEN args[3] ELSE p
ArgRetBody(args) == IF Len(args) \in 4..5 THEN args[4] ELSE defaultRetBody
ArgCbBody(args) == IF Len(args) \in 4..5 THEN args[4] ELSE ""
ArgCbURL(args) == IF Len(args) = 5 THEN args[5] ELSE ""

\* The optional-argument lists a caller passes: none to six arguments.
WriterArgs ==
    {<<>>, <<"pipe">>, <<"pipe", "avthumb">>,
     <<"pipe", "avthumb", SharedMap>>,
     <<"pipe", "avthumb", SharedMap, "custom">>,
     <<"pipe", "avthumb", SharedMap, "custom", "http://cb">>,
     <<"pipe", "avthumb", SharedMap, "custom", "http://cb", "more">>}

\* extraParams["x:name"] = path
InjectName(m, path) == [m EXCEPT !["x:name"] = path]

\* Lines 141-172 of Writer: the locals, the scope and the switch.
WriterCall(p, via, path, fSize, overWriter, args) ==
    /\ wpc[p] = "idle"
    /\ ~crashed
    /\ wcall' = [wcall EXCEPT ![p] =
                   [via |-> via, path |-> path, fSize |-> fSize,
                    overWriter |-> overWriter, args |-> args]]
    /\ IF MissFops(args)
       THEN /\ wret' = [wret EXCEPT ![p] =
                          [state |-> "nil", err |-> ErrMissFops]]
            /\ wpc' = [wpc EXCEPT ![p] = "done"]
            /\ UNCHANGED wloc
       ELSE /\ wloc' = [wloc EXCEPT ![p] =
                          [pipName |-> ArgPipName(args),
                           fops |-> ArgFops(args),
                           retBody |-> ArgRetBody(args),
                           extraParams |-> ArgExtraParams(p, args),
                           cbURL |-> ArgCbURL(args),
                           cbBody |-> ArgCbBody(args),
                           scope |-> Scope(path, overWriter)]]
            /\ wpc' = [wpc EXCEPT ![p] = "inject"]
            /\ UNCHANGED wret
    /\ UNCHANGED <<bucket, total, klvars, exvars, upload, heap, crashed>>

Writer(p) ==
    \E path \in Paths, d \in Datas, overWriter \in BOOLEAN, args \in WriterArgs :
        WriterCall(p, "Writer", path, Len(d), overWriter, args)

\* Push forwards to Writer with a reader over data and len(data).
Push(p) ==
    \E path \in Paths, data \in Datas, overWriter \in BOOLEAN,
       args \in WriterArgs :
        WriterCall(p, "Push", path, Len(data), overWriter, args)

\* Line 174: the write into the map extraParams refers to.
WriterInject(p) ==
    /\ wpc[p] = "inject"
    /\ ~crashed
    /\ heap' = [heap EXCEPT ![wloc[p].extraParams] =
                   InjectName(@, wcall[p].path)]
    /\ wpc' = [wpc EXCEPT ![p] = "put"]
    /\ UNCHANGED <<bucket, total, klvars, exvars, wcall, wloc, wret, upload,
                   crashed>>

\* Lines 176-195: the policy, the PutExtra and the upload, which reads the
\* map; the backend answers the upload with or without an error.
WriterPut(p) ==
    /\ wpc[p] = "put"
    /\ ~crashed
    /\ \E err \in {"nil", "put failed"} :
         /\ upload' = [upload EXCEPT ![p] = Append(@,
                         [scope |-> wloc[p].scope,
                          callbackURL |-> wloc[p].cbURL,
                          returnBody |-> wloc[p].retBody,
                          persistentOps |-> wloc[p].fops,
                          callbackBody |-> wloc[p].cbBody,
                          persistentPipeline |-> wloc[p].pipName,
                          key |-> wcall[p].path,
                          fSize |-> wcall[p].fSize,
                          params |-> heap[wloc[p].extraParams]])]
         /\ wret' = [wret EXCEPT ![p] = [state |-> "&ret", err |-> err]]
    /\ wpc' = [wpc EXCEPT ![p] = "done"]
    /\ UNCHANGED <<bucket, total, klvars, exvars, wcall, wloc, heap, crashed>>

\* Two goroutines are at an unsynchronized access to the same map, one of
\* them the write of line 174: a data race, which the Go runtime may end
\* with "fatal error: concurrent map writes" (or "... read and map write").
WriterRace(p) ==
    /\ wpc[p] = "inject"
    /\ ~crashed
    /\ \E q \in Procs \ {p} :
         /\ wpc[q] \in {"inject", "put"}
         /\ wloc[q].extraParams = wloc[p].extraParams
    /\ crashed' = TRUE
    /\ UNCHANGED <<bucket, total, klvars, exvars, wpc, wcall, wloc, wret,
                   upload, heap>>

\* ------------------------------------------------------ specifications
NoLocals ==
    [pipName |-> "", fops |-> "", retBody |-> defaultRetBody,
     extraParams |-> Absent, cbURL |-> "", cbBody |-> "", scope |-> ""]

Init ==
    /\ bucket \in Buckets
    /\ total \in 0..MaxKeys
    /\ klpc = "idle"
    /\ n = DefaultN
    /\ limit = DefaultLimit
    /\ marker = EmptyMarker
    /\ delimiter = ""
    /\ keys = <<>>
    /\ ret = [keys |-> <<>>, marker |-> EmptyMarker]
    /\ call = [n |-> DefaultN, limit |-> DefaultLimit, marker |-> EmptyMarker]
    /\ reqs = <<>>
    /\ reason = "none"
    /\ resumeAfter = 0
    /\ existKey = 0
    /\ existRet = FALSE
    /\ statLog = <<>>
    /\ wpc = [p \in Procs |-> "idle"]
    /\ wcall = [p \in Procs |->
                  [via |-> "none", path |-> "", fSize |-> 0,
                   overWriter |-> FALSE, args |-> <<>>]]
    /\ wloc = [p \in Procs |-> NoLocals]
    /\ wret = [p \in Procs |-> [state |-> "none", err |-> "none"]]
    /\ upload = [p \in Procs |-> <<>>]
    /\ heap = [m \in Procs \cup {SharedMap} |->
                 IF m = SharedMap
                 THEN [k \in {"x:name", "x:password"} |->
                         IF k = "x:name" THEN "zihua" ELSE "123456"]
                 ELSE [k \in {"x:name", "x:password"} |-> Absent]]
    /\ crashed = FALSE

\* The listing: a caller lists, and resumes from the markers it gets back.
Next ==
    \/ KeyListCall
    \/ KeyListResume
    \/ KeyListIterErr
    \/ KeyListIterOk

Spec == Init /\ [][Next]_vars

\* Each iteration of the loop is a network call that returns.
FairSpec == Spec /\ WF_vars(KeyListIterErr \/ KeyListIterOk)

ExistNext == KeyExist

ExistSpec == Init /\ [][ExistNext]_vars

WriterNext ==
    \E p \in Procs :
        \/ Writer(p)
        \/ Push(p)
        \/ WriterInject(p)
        \/ WriterPut(p)
        \/ WriterRace(p)

\* Writer reads nothing of the listing: its runs start with an empty prefix.
WriterInit == Init /\ total = 0

WriterSpec == WriterInit /\ [][WriterNext]_vars

\* ------------------------------------------------------------- claims
AllOk == \A i \in 1..Len(reqs) : reqs[i].ok

RECURSIVE Received(_)
Received(log) ==
    IF log = <<>> THEN <<>> ELSE Received(SubSeq(log, 1, Len(log) - 1))
                                   \o log[Len(log)].items

\* C1: a Writer or Push call with exactly one optional argument returns a
\* nil State and ErrMissFops, and hands nothing to the uploader.
C1_OneArgMissFops ==
    \A p \in Procs :
        (wpc[p] # "idle" /\ Len(wcall[p].args) = 1)
        => /\ wpc[p] = "done"
           /\ wret[p] = [state |-> "nil", err |-> ErrMissFops]
           /\ upload[p] = <<>>

C1_Witness ==
    \E p \in Procs :
        /\ wcall[p].via = "Push"
        /\ Len(wcall[p].args) = 1
        /\ wret[p].err = ErrMissFops

\* C2: with n >= 1, limit >= 1, the listing started at the empty marker, no
\* failed list call and at least n keys in the backend, KeyList returns
\* exactly the first n keys of the listing, each once.
C2_FirstNKeys ==
    (/\ klpc = "done"
     /\ call.n >= 1
     /\ call.limit >= 1
     /\ call.marker = EmptyMarker
     /\ AllOk
     /\ total >= call.n)
    => ret.keys = [i \in 1..call.n |-> i]

C2_Witness ==
    /\ klpc = "done"
    /\ call.n = 5
    /\ call.limit = 2
    /\ call.marker = EmptyMarker
    /\ total = 12
    /\ AllOk
    /\ Len(ret.keys) = 5

\* C3: a call that resumes at the marker of a call stopped at n, with keys
\* left in the backend, returns first the key right after the last one the
\* stopped call returned.
C3_ResumeContinues ==
    (/\ klpc = "done"
     /\ resumeAfter # 0
     /\ reqs[1].ok)
    => /\ ret.keys # <<>>
       /\ ret.keys[1] = resumeAfter + 1

\* C4: a failed list call is the last call of the listing, which returns the
\* keys of the pages received before it and the marker of the failed request.
C4_ErrorTruncates ==
    \A i \in 1..Len(reqs) :
        ~reqs[i].ok
        => /\ i = Len(reqs)
           /\ klpc = "done"
           /\ ret.keys = Received(reqs)
           /\ ret.marker = reqs[i].marker

C4_Witness ==
    /\ klpc = "done"
    /\ Len(reqs) >= 2
    /\ ~reqs[Len(reqs)].ok
    /\ Len(ret.keys) = 3
    /\ ret.marker # EmptyMarker

\* C5: a listing that ends exhausted returns the empty marker.
C5_ExhaustedEmptyMarker ==
    (klpc = "done" /\ reason = "exhausted") => ret.marker = EmptyMarker

\* C6: KeyExist makes one Stat call, on the client's bucket and the key, and
\* returns true exactly when that call succeeds.
C6_ExistIffStatOk ==
    existKey # 0
    => /\ Len(statLog) = 1
       /\ statLog[1].bucket = bucket
       /\ statLog[1].key = existKey
       /\ existRet = (statLog[1].outcome = "ok")
       /\ (statLog[1].outcome \in {"not found", "timeout"} => existRet = FALSE)

C6_Witness ==
    /\ existKey # 0
    /\ statLog[1].outcome = "timeout"
    /\ existKey \in 1..total
    /\ existRet = FALSE

\* C7: the scope of every upload is "<bucket>:<key>" when overWriter is
\* true and the bare bucket when it is false.
C7_ScopeByOverWriter ==
    \A p \in Procs :
        \A i \in 1..Len(upload[p]) :
            upload[p][i].scope = IF wcall[p].overWriter
                                 THEN bucket \o ":" \o wcall[p].path
                                 ELSE bucket

C7_Witness ==
    \E p \in Procs :
        /\ Len(upload[p]) = 1
        /\ wcall[p].overWriter
        /\ Len(wcall[p].args) = 5
        /\ upload[p][1].scope = "img:a.png"

\* C8: the extra parameters of every upload map "x:name" to the key of the
\* call that made it, however the calls of the goroutines interleave.
C8_NameIsOwnKey ==
    \A p \in Procs :
        \A i \in 1..Len(upload[p]) :
            upload[p][i].params["x:name"] = wcall[p].path

C10_AtMostN == klpc = "done" => Len(ret.keys) <= call.n
=============================================================================
